---- MODULE Spec2Model ----
(***************************************************************************)
(* Deep BSDE solver (class dBSDE of solver.py): the forward time-stepping  *)
(* pass `call`, the train/test steps, the epoch loop `custom_fit` and the  *)
(* two patience-counter policies `lr_schedule` and `early_stop`.           *)
(*                                                                         *)
(* Numbers.  The state, noise and control dimensions are 1 (DimX, DimW),   *)
(* so a batch of vectors is a sequence with one integer per batch row.     *)
(* Floating-point values are modelled by integers; an average is kept as   *)
(* the pair (sum, count) so that no rounding is introduced.  The learning  *)
(* rate is counted in units of 1e-6 / 2^14, in which 0.01 and every halving*)
(* of it down to the floor 1e-6 is an integer.                             *)
(***************************************************************************)
EXTENDS Integers, Sequences, FiniteSets, TLC

VARIABLES
    cfg,                \* constructor arguments: num_time_interval, separate_z0, zdx,
                        \* and whether the equation has z_T_matmul_sigma_x
    y0, z0, theta,      \* InitialValue, InitialControl slot, weights of nn_z
    lr, optimizer_lr,   \* self.lr and the learning rate held by self.optimizer
    loss_patience_cnt,  \* self._loss_patience_cnt
    stop_patience_cnt,  \* self._stop_patience_cnt
    train_loss,         \* self.train_loss  (keras Mean: total, count)
    test_loss,          \* self.test_loss
    hist,               \* self.hist, the recorded trajectory
    ret, prev,          \* outcome of the latest and of the previous direct call
    pc,                 \* position of the caller: idle, or inside custom_fit
    fit                 \* locals of the running (or last) custom_fit

solver == <<cfg, y0, z0, theta, lr, optimizer_lr, loss_patience_cnt,
            stop_patience_cnt, train_loss, test_loss, hist>>
vars == <<cfg, y0, z0, theta, lr, optimizer_lr, loss_patience_cnt,
          stop_patience_cnt, train_loss, test_loss, hist, ret, prev, pc, fit>>

(***************************************************************************)
(* Bounds of the model                                                     *)
(***************************************************************************)
MaxN == 3               \* num_time_interval ranges over 1..MaxN
BatchSize == 2          \* rows of a noise batch
MaxEpochs == 7          \* the argument epochs of custom_fit is at most MaxEpochs
MaxRefitEpochs == 1     \* ... and over 1..MaxRefitEpochs in a later call on the same solver
MaxFits == 2            \* custom_fit calls on one solver
LrMaxFits == 5          \* custom_fit calls on one solver when the learning rate is followed

(***************************************************************************)
(* Program and problem constants                                           *)
(***************************************************************************)
DimX == 1               \* equation.dimx
DimW == 1               \* equation.dim
x0 == 0                 \* equation.x_init
total_time == 6         \* equation.total_time
LR_INIT == 163840000    \* 0.01
LR_FLOOR == 16384       \* 1e-6
psi == 2                \* equation.psi
gamma == 3              \* equation.gamma
StopPatience == 5       \* early_stop(hist_loss, patience=5, min_delta=0.01)
StopDeltaNum == 1
StopDeltaDen == 100
DecayPatience == 3      \* lr_schedule(hist_loss, patience=3, min_delta=0.05)
DecayDeltaNum == 5
DecayDeltaDen == 100

\* values of the argument epochs in a solver's first custom_fit: one epoch,
\* the most epochs that cannot end by early stop, and the bound
FitEpochs == {1, StopPatience + 1, MaxEpochs}

InitY0 == {0, 300}                  \* values of the constructor argument y0
Thetas == {0, 1}                    \* values the Approximator weights range over

\* the constructor arguments of the solvers that are fitted
FitConfigs ==
    { [N |-> n, separate_z0 |-> b, zdx |-> b, has_transform |-> FALSE] :
          n \in {1, 2}, b \in BOOLEAN }

Unbound == << >>        \* a local name that no assignment has bound yet

dimz(zdx) == IF zdx THEN DimX ELSE DimW
delta_t(N) == total_time \div N

RECURSIVE SumSeq(_)
SumSeq(s) == IF s = << >> THEN 0 ELSE s[1] + SumSeq(Tail(s))

\* tf.reduce_mean of one value per batch row, kept exact as (sum, count)
reduce_mean(v) == [sum |-> SumSeq(v), n |-> Len(v)]

\* With(v, F) is F(v), with v computed once
With(v, F(_)) == CHOOSE out \in { F(w) : w \in {v} } : TRUE

\* tf.broadcast_to(v, [batch_size, 1])
broadcast_to(v, B) == [i \in 1..B |-> v]

(***************************************************************************)
(* Inputs: a batch is BatchSize rows of num_time_interval noise increments *)
(***************************************************************************)
ZeroBatch(N) == [i \in 1..BatchSize |-> [t \in 1..N |-> 0]]
MixedBatch(N) == [i \in 1..BatchSize |-> [t \in 1..N |-> IF i = 1 THEN 0 ELSE t % 2]]
AlternatingBatch(N) == [i \in 1..BatchSize |-> [t \in 1..N |-> t % 2]]
LateBatch(N) == [i \in 1..BatchSize |-> [t \in 1..N |-> IF t = 1 THEN 0 ELSE 1]]
Batches(N) == { ZeroBatch(N), MixedBatch(N), AlternatingBatch(N), LateBatch(N) }

\* tensors of r rows and w columns whose r * w elements are not a multiple of
\* dimw * num_time_interval (there is none when that product is 1)
Tensor(r, w) == [i \in 1..r |-> [t \in 1..w |-> 1]]
MalformedBatches(N) ==
    { Tensor(r, N + 1) : r \in { q \in {1, BatchSize} : (q * (N + 1)) % (DimW * N) # 0 } }

\* tf.reshape(inputs, [-1, dimw, num_time_interval]): the elements in row-major
\* order, regrouped in rows of num_time_interval; an InvalidArgumentError when
\* their number is not a multiple of dimw * num_time_interval
RECURSIVE Flatten(_)
Flatten(rows) == IF rows = << >> THEN << >> ELSE Head(rows) \o Flatten(Tail(rows))
ShapeError == "InvalidArgumentError"
reshape(inputs, N) ==
    LET flat == Flatten(inputs)
    IN  IF Len(flat) % (DimW * N) # 0
        THEN [status |-> ShapeError, dw_sample |-> << >>]
        ELSE [status |-> "ok",
              dw_sample |-> [i \in 1..(Len(flat) \div (DimW * N)) |->
                                SubSeq(flat, (i - 1) * N + 1, i * N)]]

\* dw_sample[:, :, t]
dw_slice(dw_sample, t) == [i \in 1..Len(dw_sample) |-> dw_sample[i][t + 1]]

(***************************************************************************)
(* The equation object (external collaborator)                             *)
(***************************************************************************)
next_x(x, dw) == [i \in 1..Len(x) |-> x[i] + dw[i]]

next_y(time, x, y, z, dw, zdx) ==
    [y |-> [i \in 1..Len(y) |-> y[i] + z[i] * dw[i]], pi |-> z]

g_tf(t, y) == [i \in 1..Len(y) |-> 0]

(***************************************************************************)
(* The Approximator self.nn_z: one output per feature row (x, time, y)     *)
(***************************************************************************)
nn_z(th, x, time, y) ==
    [i \in 1..Len(x) |-> (th + x[i] + time[i] + (y[i] % 2)) * (1 + th)]

\* nn_z(features) / self.dimz
control(th, x, time, y, dz) ==
    LET out == nn_z(th, x, time, y) IN [i \in 1..Len(x) |-> out[i] \div dz]

(***************************************************************************)
(* call: the forward pass                                                  *)
(***************************************************************************)
NoHist == [x |-> << >>, y |-> << >>, z |-> << >>, t |-> << >>, pi |-> << >>]
NoCalls == [next_y |-> 0, next_x |-> 0, nn_z |-> 0]

\* the calls a pass makes on the equation and on nn_z, in order, with their
\* arguments
NextYCall(time, x, y, z, dw) ==
    [fn |-> "next_y", time |-> time, x |-> x, y |-> y, z |-> z, dw |-> dw]
NextXCall(x, dw) ==
    [fn |-> "next_x", time |-> << >>, x |-> x, y |-> << >>, z |-> << >>, dw |-> dw]
NnZCall(x, time, y) ==
    [fn |-> "nn_z", time |-> time, x |-> x, y |-> y, z |-> << >>, dw |-> << >>]

\* lines 66-70: the control used at t = 0
InitialControlAddsSlot(c, z0v, th, x, y) ==
    IF c.separate_z0
    THEN broadcast_to(z0v, Len(x))
    ELSE LET fresh == control(th, x, broadcast_to(0, Len(x)), y, dimz(c.zdx))
         IN  [i \in 1..Len(x) |-> z0v + fresh[i]]
InitialControl(c, z0v, th, x, y) ==
    IF c.separate_z0
    THEN broadcast_to(z0v, Len(x))
    ELSE control(th, x, broadcast_to(0, Len(x)), y, dimz(c.zdx))

\* line 71: what the pass leaves in self.z0
Z0SlotKeep(c, z0v, z0b) == z0v
Z0Slot(c, z0v, z0b) == IF c.separate_z0 THEN z0v ELSE z0b[1]

\* lines 75-80: a recording pass starts a new trajectory
RecordInit(x, y, z0b, time) ==
    [x |-> << reduce_mean(x) >>, y |-> << reduce_mean(y) >>,
     z |-> << reduce_mean(z0b) >>, t |-> << time[1] >>, pi |-> << >>]

\* lines 82-84
RecordFirstValue(h, y, pi) ==
    [h EXCEPT !.y = Append(@, reduce_mean(y)), !.pi = Append(@, reduce_mean(pi))]

\* lines 96-101
RecordStepNoTime(h, x, y, z, pi, time) ==
    [h EXCEPT !.x = Append(@, reduce_mean(x)), !.y = Append(@, reduce_mean(y)),
              !.z = Append(@, reduce_mean(z)), !.pi = Append(@, reduce_mean(pi))]
RecordStep(h, x, y, z, pi, time) ==
    [h EXCEPT !.x = Append(@, reduce_mean(x)), !.y = Append(@, reduce_mean(y)),
              !.z = Append(@, reduce_mean(z)), !.pi = Append(@, reduce_mean(pi)),
              !.t = Append(@, time[1])]

\* lines 88-101: the body of the loop, for one t
StepTimeAsNoise(t, st, c, th, dw_sample, test) ==
    LET time == broadcast_to(t * delta_t(c.N), Len(st.x))
        dw   == dw_slice(dw_sample, t)
    IN  With(next_x(st.x, st.dw), LAMBDA x :
        With(control(th, x, time, st.y, dimz(c.zdx)), LAMBDA z :
        With(next_y(time, x, st.y, z, time, c.zdx), LAMBDA r :
            [x |-> x, y |-> r.y, z |-> z, dw |-> dw,
             hist |-> IF test THEN RecordStep(st.hist, x, r.y, z, r.pi, time)
                      ELSE st.hist,
             calls |-> [st.calls EXCEPT !.next_x = @ + 1, !.nn_z = @ + 1,
                                        !.next_y = @ + 1],
             trace |-> st.trace \o << NextXCall(st.x, st.dw), NnZCall(x, time, st.y),
                                      NextYCall(time, x, st.y, z, time) >>])))
StepStateFromNewNoise(t, st, c, th, dw_sample, test) ==
    LET time == broadcast_to(t * delta_t(c.N), Len(st.x))
        dw   == dw_slice(dw_sample, t)
    IN  With(next_x(st.x, dw), LAMBDA x :
        With(control(th, x, time, st.y, dimz(c.zdx)), LAMBDA z :
        With(next_y(time, x, st.y, z, dw, c.zdx), LAMBDA r :
            [x |-> x, y |-> r.y, z |-> z, dw |-> dw,
             hist |-> IF test THEN RecordStep(st.hist, x, r.y, z, r.pi, time)
                      ELSE st.hist,
             calls |-> [st.calls EXCEPT !.next_x = @ + 1, !.nn_z = @ + 1,
                                        !.next_y = @ + 1],
             trace |-> st.trace \o << NextXCall(st.x, dw), NnZCall(x, time, st.y),
                                      NextYCall(time, x, st.y, z, dw) >>])))
Step(t, st, c, th, dw_sample, test) ==
    LET time == broadcast_to(t * delta_t(c.N), Len(st.x))
        dw   == dw_slice(dw_sample, t)
    IN  With(next_x(st.x, st.dw), LAMBDA x :
        With(control(th, x, time, st.y, dimz(c.zdx)), LAMBDA z :
        With(next_y(time, x, st.y, z, dw, c.zdx), LAMBDA r :
            [x |-> x, y |-> r.y, z |-> z, dw |-> dw,
             hist |-> IF test THEN RecordStep(st.hist, x, r.y, z, r.pi, time)
                      ELSE st.hist,
             calls |-> [st.calls EXCEPT !.next_x = @ + 1, !.nn_z = @ + 1,
                                        !.next_y = @ + 1],
             trace |-> st.trace \o << NextXCall(st.x, st.dw), NnZCall(x, time, st.y),
                                      NextYCall(time, x, st.y, z, dw) >>])))

\* lines 87-101: for t in range(1, num_time_interval)
IterateOnce(t, st, c, th, dw_sample, test) ==
    IF t >= c.N THEN st ELSE Step(t, st, c, th, dw_sample, test)
RECURSIVE Iterate(_, _, _, _, _, _)
Iterate(t, st, c, th, dw_sample, test) ==
    IF t >= c.N THEN st
    ELSE With(Step(t, st, c, th, dw_sample, test), LAMBDA s :
              Iterate(t + 1, s, c, th, dw_sample, test))

\* line 103: return y, x, z
ReturnStatus(z) == IF z = Unbound THEN "UnboundLocalError" ELSE "ok"

\* lines 62-84: the pass up to the loop
BeforeLoop(c, y0v, z0v, th, histv, inputs, test) ==
    LET B    == Len(inputs)
        x    == broadcast_to(x0, B)
        y    == broadcast_to(y0v, B)
        dw   == dw_slice(reshape(inputs, c.N).dw_sample, 0)
        time == broadcast_to(0, B)
    IN  With(InitialControl(c, z0v, th, x, y), LAMBDA z0b :
        With(next_y(time, x, y, z0b, dw, c.zdx), LAMBDA r :
            [x |-> x, y |-> r.y, z |-> Unbound, dw |-> dw, z0b |-> z0b,
             hist |-> IF test
                      THEN RecordFirstValue(RecordInit(x, y, z0b, time), r.y, r.pi)
                      ELSE histv,
             calls |-> [NoCalls EXCEPT !.next_y = 1,
                           !.nn_z = IF c.separate_z0 THEN 0 ELSE 1],
             trace |-> (IF c.separate_z0 THEN << >> ELSE << NnZCall(x, time, y) >>)
                          \o << NextYCall(time, x, y, z0b, dw) >>]))

\* line 62: the reshape raises, as the first statement of the pass
RaiseAfterRecordInit(z0v, histv, test) ==
    [status |-> ShapeError, y |-> << >>, x |-> << >>, z |-> Unbound,
     z0 |-> z0v, z0b |-> << >>, hist |-> IF test THEN NoHist ELSE histv,
     calls |-> NoCalls, trace |-> << >>]
RaiseAtReshape(z0v, histv, test) ==
    [status |-> ShapeError, y |-> << >>, x |-> << >>, z |-> Unbound,
     z0 |-> z0v, z0b |-> << >>, hist |-> histv, calls |-> NoCalls, trace |-> << >>]

\* lines 62-103.  The result holds the returned triple (y, x, z), the outcome
\* (a normal return or the exception raised), and what the pass leaves in
\* self.z0 and self.hist.
call(c, y0v, z0v, th, histv, inputs, test) ==
    With(reshape(inputs, c.N), LAMBDA rs :
    IF rs.status = ShapeError THEN RaiseAtReshape(z0v, histv, test) ELSE
    With(BeforeLoop(c, y0v, z0v, th, histv, inputs, test), LAMBDA st1 :
    With(Iterate(1, [x |-> st1.x, y |-> st1.y, z |-> st1.z, dw |-> st1.dw,
                     hist |-> st1.hist, calls |-> st1.calls, trace |-> st1.trace],
                 c, th, rs.dw_sample, test), LAMBDA st :
        [status |-> ReturnStatus(st.z),
         y |-> st.y, x |-> next_x(st.x, st.dw), z |-> st.z,
         z0 |-> Z0Slot(c, z0v, st1.z0b), z0b |-> st1.z0b, hist |-> st.hist,
         calls |-> [st.calls EXCEPT !.next_x = @ + 1],
         trace |-> Append(st.trace, NextXCall(st.x, st.dw))])))

(***************************************************************************)
(* The state after construction (__init__, lines 12-50)                    *)
(***************************************************************************)
NoCall == [op |-> "none", test |-> FALSE, inputs |-> << >>, y0 |-> 0, z0 |-> 0,
           theta |-> 0, status |-> "none", y |-> << >>, x |-> << >>, z |-> << >>,
           calls |-> NoCalls, trace |-> << >>]
NoMean == [total |-> 0, count |-> 0]
NoFit == [epochs |-> 0]

Init ==
    /\ cfg \in [N : 1..MaxN, separate_z0 : BOOLEAN, zdx : BOOLEAN,
                 has_transform : BOOLEAN]
    /\ y0 \in InitY0
    /\ z0 = 0
    /\ theta \in Thetas
    /\ lr = LR_INIT
    /\ optimizer_lr = LR_INIT
    /\ loss_patience_cnt = 0
    /\ stop_patience_cnt = 0
    /\ train_loss = NoMean
    /\ test_loss = NoMean
    /\ hist = NoHist
    /\ ret = NoCall
    /\ prev = NoCall
    /\ pc = "idle"
    /\ fit = NoFit

(***************************************************************************)
(* A direct forward pass: solver.call(inputs, test)                        *)
(***************************************************************************)
CallRecord(r, inputs, test) ==
    [op |-> "call", test |-> test, inputs |-> inputs, y0 |-> y0, z0 |-> z0,
     theta |-> theta, status |-> r.status, y |-> r.y, x |-> r.x, z |-> r.z,
     calls |-> r.calls, trace |-> r.trace]

Call ==
    /\ pc = "idle"
    /\ \E inputs \in Batches(cfg.N) \cup MalformedBatches(cfg.N), test \in BOOLEAN :
          \E r \in { call(cfg, y0, z0, theta, hist, inputs, test) } :
              /\ z0' = r.z0
              /\ hist' = r.hist
              /\ ret' = CallRecord(r, inputs, test)
              /\ prev' = ret
    /\ UNCHANGED <<cfg, y0, theta, lr, optimizer_lr, loss_patience_cnt,
                   stop_patience_cnt, train_loss, test_loss, pc, fit>>


(***************************************************************************)
(* train_step and test_step (lines 105-120)                                *)
(***************************************************************************)
\* tf.keras.losses.mean_squared_error(true_value, pred_value): one loss per row
mean_squared_error(true, pred) ==
    [i \in 1..Len(pred) |-> (true[i] - pred[i]) * (true[i] - pred[i])]

\* keras Mean.update_state, Mean.result (0 when nothing was accumulated),
\* Mean.reset_states
update_state(m, loss) == [total |-> m.total + SumSeq(loss), count |-> m.count + Len(loss)]
result(m) == IF m.count = 0 THEN [num |-> 0, den |-> 1]
             ELSE [num |-> m.total, den |-> m.count]
reset_states(m) == NoMean

\* The parameter values one optimizer step may produce (the optimizer and the
\* gradients are opaque: any of these may follow any other).
ParamUpdates ==
    { [y0 |-> 300, z0 |-> 0, theta |-> 0],
      [y0 |-> 305, z0 |-> 1, theta |-> 1],
      [y0 |-> 301, z0 |-> 0, theta |-> 1],
      [y0 |-> 0,   z0 |-> 1, theta |-> 0] }
LrUpdates ==
    { [y0 |-> 300, z0 |-> 0, theta |-> 0],
      [y0 |-> 305, z0 |-> 1, theta |-> 1] }

\* lines 106-113.  u is the outcome of optimizer.apply_gradients.  The pass
\* inside the tf.function is taken as executed like a direct call; in coupled
\* mode self.z0 is not a trained variable and holds what the pass left in it.
train_step(c, y0v, z0v, th, histv, m, batch, u) ==
    With(call(c, y0v, z0v, th, histv, batch, FALSE), LAMBDA r :
    With(mean_squared_error(g_tf(0, r.y), r.y), LAMBDA loss :
        IF r.status # "ok"
        THEN [status |-> r.status, y0 |-> y0v, z0 |-> r.z0, theta |-> th,
              hist |-> r.hist, mean |-> m, loss |-> << >>, calls |-> r.calls]
        ELSE [status |-> "ok", y0 |-> u.y0,
              z0 |-> IF c.separate_z0 THEN u.z0 ELSE r.z0,
              theta |-> u.theta, hist |-> r.hist, mean |-> update_state(m, loss),
              loss |-> loss, calls |-> r.calls]))

\* lines 115-120
test_step_moves_y0(c, y0v, z0v, th, histv, m, batch) ==
    With(call(c, y0v, z0v, th, histv, batch, TRUE), LAMBDA r :
    With(mean_squared_error(g_tf(0, r.y), r.y), LAMBDA loss :
        IF r.status # "ok"
        THEN [status |-> r.status, y0 |-> y0v, z0 |-> r.z0, theta |-> th,
              hist |-> r.hist, mean |-> m, loss |-> << >>, calls |-> r.calls]
        ELSE [status |-> "ok", y0 |-> y0v + 1, z0 |-> r.z0, theta |-> th,
              hist |-> r.hist, mean |-> update_state(m, loss), loss |-> loss,
              calls |-> r.calls]))
test_step(c, y0v, z0v, th, histv, m, batch) ==
    With(call(c, y0v, z0v, th, histv, batch, TRUE), LAMBDA r :
    With(mean_squared_error(g_tf(0, r.y), r.y), LAMBDA loss :
        IF r.status # "ok"
        THEN [status |-> r.status, y0 |-> y0v, z0 |-> r.z0, theta |-> th,
              hist |-> r.hist, mean |-> m, loss |-> << >>, calls |-> r.calls]
        ELSE [status |-> "ok", y0 |-> y0v, z0 |-> r.z0, theta |-> th,
              hist |-> r.hist, mean |-> update_state(m, loss), loss |-> loss,
              calls |-> r.calls]))

(***************************************************************************)
(* lr_schedule and early_stop (lines 197-213)                              *)
(***************************************************************************)
\* len(hist_loss) > 1 and abs(hist_loss[-2] - hist_loss[-1]) / hist_loss[-2]
\* < min_delta, with min_delta = p / q and the losses exact fractions.  A
\* division by a zero loss gives inf or nan, which is not below min_delta.
Abs(v) == IF v < 0 THEN 0 - v ELSE v
rel_change_below(a, b, p, q) ==
    /\ a.num # 0
    /\ q * Abs(a.num * b.den - b.num * a.den) < p * b.den * a.num
plateau(hist_loss, p, q) ==
    /\ Len(hist_loss) > 1
    /\ rel_change_below(hist_loss[Len(hist_loss) - 1], hist_loss[Len(hist_loss)], p, q)

\* lines 198-201 and 207-210: the counter after one evaluation
patience_cnt_no_reset(cnt, hist_loss, p, q) ==
    IF plateau(hist_loss, p, q) THEN cnt + 1 ELSE cnt
patience_cnt_counts_first_epoch(cnt, hist_loss, p, q) ==
    IF plateau(hist_loss, p, q) \/ Len(hist_loss) = 1 THEN cnt + 1 ELSE 0
patience_cnt(cnt, hist_loss, p, q) ==
    IF plateau(hist_loss, p, q) THEN cnt + 1 ELSE 0

\* lines 202-203
decayed_lr_no_floor(l, cnt, patience) == IF cnt > patience THEN l \div 2 ELSE l
decayed_lr_late(l, cnt, patience) ==
    IF cnt > patience + 1
    THEN (IF l \div 2 > LR_FLOOR THEN l \div 2 ELSE LR_FLOOR)
    ELSE l
decayed_lr(l, cnt, patience) ==
    IF cnt > patience
    THEN (IF l \div 2 > LR_FLOOR THEN l \div 2 ELSE LR_FLOOR)
    ELSE l

\* lines 211-213
stop_signal_at_patience(cnt, patience) == cnt >= patience
stop_signal(cnt, patience) == cnt > patience

\* lines 189-192: the break on early stop comes before the lr_schedule call
lr_schedule_reached_always(early_stop) == TRUE
lr_schedule_reached(early_stop) == ~early_stop

(***************************************************************************)
(* custom_fit (lines 122-195)                                              *)
(***************************************************************************)
\* the datasets custom_fit is given, as pairs (train_ds, test_ds); Malformed is
\* the set of malformed batches that may stand in one of the two
TrainSets(N) == { << MixedBatch(N) >> }
TestSets(N) == { << ZeroBatch(N), MixedBatch(N) >> }
Datasets(N, Malformed) ==
    { << tr, te >> : tr \in TrainSets(N), te \in TestSets(N) }
        \cup { << << b >>, te >> : b \in Malformed, te \in TestSets(N) }
        \cup { << tr, << ZeroBatch(N), b >> >> : tr \in TrainSets(N), b \in Malformed }

\* equation.sigma_x(x0); equation.z_T_matmul_sigma_x(z0, sigma_x), an
\* AttributeError when the equation has no such method; tf.matmul
sigma_x(x) == x + 2
z_T_matmul_sigma_x(c, z0v, sigma) ==
    IF c.has_transform THEN [status |-> "ok", value |-> z0v * sigma]
    ELSE [status |-> "AttributeError", value |-> 0]
matmul(a, b) == a * b

\* lines 155-163: the diagnostic z0
diagnostic_z0_no_fallback(c, z0v) ==
    IF c.zdx
    THEN With(z_T_matmul_sigma_x(c, z0v, sigma_x(x0)), LAMBDA r :
             IF r.status = "ok" THEN r.value ELSE z0v)
    ELSE z0v
diagnostic_z0(c, z0v) ==
    IF c.zdx
    THEN With(z_T_matmul_sigma_x(c, z0v, sigma_x(x0)), LAMBDA r :
             IF r.status = "ok" THEN r.value ELSE matmul(z0v, sigma_x(x0)))
    ELSE z0v

\* lines 123-142
NewHistory(c) ==
    [x0 |-> x0, T |-> total_time, N |-> c.N, psi |-> psi, gamma |-> gamma,
     epoch |-> << >>, elapsed_time |-> << >>, y0 |-> << >>, z0 |-> << >>,
     loss |-> << >>, lr |-> << >>]

\* lines 181-186
AppendHistoryEpochIndex(h, epoch, elapsed, y0v, z0d, loss, l) ==
    [h EXCEPT !.epoch = Append(@, epoch), !.elapsed_time = Append(@, elapsed),
              !.y0 = Append(@, y0v), !.z0 = Append(@, z0d),
              !.loss = Append(@, loss), !.lr = Append(@, l)]
AppendHistory(h, epoch, elapsed, y0v, z0d, loss, l) ==
    [h EXCEPT !.epoch = Append(@, epoch + 1), !.elapsed_time = Append(@, elapsed),
              !.y0 = Append(@, y0v), !.z0 = Append(@, z0d),
              !.loss = Append(@, loss), !.lr = Append(@, l)]

\* custom_fit(train_ds, test_ds, epochs) is entered; lines 123-144.  The first
\* call on a solver takes epochs from First, a later one from Later, and a
\* solver is fitted at most maxFits times.
FitStart(First, Later, maxFits, Malformed) ==
    /\ pc \in {"idle", "returned", "raised"}
    /\ (IF pc = "idle" THEN 0 ELSE fit.nfit) < maxFits
    /\ \E e \in (IF pc = "idle" THEN First ELSE Later),
          ds \in Datasets(cfg.N, Malformed) :
          /\ fit' = [epochs |-> e, epoch |-> 0, train_ds |-> ds[1], test_ds |-> ds[2],
                     i |-> 1, hist_loss |-> << >>, history |-> NewHistory(cfg),
                     early_stop |-> FALSE, clock |-> 0,
                     n_train |-> 0, n_test |-> 0, epoch_test |-> NoMean,
                     epoch_avg |-> << >>, lr_in |-> lr, decayed_from |-> 0,
                     stop_seen |-> << >>, decay_seen |-> << >>,
                     raised |-> "none", raised_calls |-> NoCalls, z0_slot |-> << >>,
                     n_stop_eval |-> 0, n_decay_eval |-> 0, applied_lr |-> << >>,
                     cnt_in |-> [stop |-> stop_patience_cnt, loss |-> loss_patience_cnt],
                     nfit |-> (IF pc = "idle" THEN 0 ELSE fit.nfit) + 1]
    /\ pc' = "train"
    /\ UNCHANGED <<solver, ret, prev>>

\* line 145-146: one training batch
TrainStep(Updates) ==
    /\ pc = "train"
    /\ \E u \in Updates :
          \E r \in { train_step(cfg, y0, z0, theta, hist, train_loss,
                                 fit.train_ds[fit.i], u) } :
              /\ y0' = r.y0 /\ z0' = r.z0 /\ theta' = r.theta
              /\ hist' = r.hist
              /\ train_loss' = r.mean
              /\ IF r.status # "ok"
                 THEN /\ pc' = "raised"
                      /\ fit' = [fit EXCEPT !.raised = r.status, !.raised_calls = r.calls]
                 ELSE /\ pc' = IF fit.i = Len(fit.train_ds) THEN "test" ELSE "train"
                      /\ fit' = [fit EXCEPT
                                   !.i = IF fit.i = Len(fit.train_ds) THEN 1 ELSE @ + 1,
                                   !.n_train = @ + 1, !.clock = @ + 1,
                                   !.applied_lr = Append(@, [optimizer |-> optimizer_lr,
                                                             lr |-> lr])]
    /\ UNCHANGED <<cfg, lr, optimizer_lr, loss_patience_cnt, stop_patience_cnt,
                   test_loss, ret, prev>>

\* lines 148-149: one test batch
TestStep ==
    /\ pc = "test"
    /\ \E r \in { test_step(cfg, y0, z0, theta, hist, test_loss, fit.test_ds[fit.i]) } :
           /\ y0' = r.y0 /\ z0' = r.z0 /\ theta' = r.theta
           /\ hist' = r.hist
           /\ test_loss' = r.mean
           /\ IF r.status # "ok"
              THEN /\ pc' = "raised"
                   /\ fit' = [fit EXCEPT !.raised = r.status, !.raised_calls = r.calls]
              ELSE /\ pc' = IF fit.i = Len(fit.test_ds) THEN "epoch_end" ELSE "test"
                   /\ fit' = [fit EXCEPT
                                !.i = IF fit.i = Len(fit.test_ds) THEN 1 ELSE @ + 1,
                                !.n_test = @ + 1, !.clock = @ + 1,
                                !.epoch_test = update_state(@, r.loss)]
    /\ UNCHANGED <<cfg, lr, optimizer_lr, loss_patience_cnt, stop_patience_cnt,
                   train_loss, ret, prev>>

\* lines 150-194: the end of an epoch, after the last test batch
EpochEnd ==
    /\ pc = "epoch_end"
    /\ LET test_loss_now == result(test_loss)
           hist_loss == Append(fit.hist_loss, test_loss_now)
           history   == AppendHistory(fit.history, fit.epoch, fit.clock, y0,
                                      diagnostic_z0(cfg, z0), test_loss_now, lr)
           stop_cnt  == patience_cnt(stop_patience_cnt, hist_loss,
                                     StopDeltaNum, StopDeltaDen)
           stop      == stop_signal(stop_cnt, StopPatience)
           loss_cnt  == patience_cnt(loss_patience_cnt, hist_loss,
                                     DecayDeltaNum, DecayDeltaDen)
           last      == fit.epoch + 1 = fit.epochs
           decay     == lr_schedule_reached(stop)
       IN  /\ stop_patience_cnt' = stop_cnt
           /\ loss_patience_cnt' = IF decay THEN loss_cnt ELSE loss_patience_cnt
           /\ lr' = IF decay THEN decayed_lr(lr, loss_cnt, DecayPatience) ELSE lr
           /\ IF stop
              THEN /\ pc' = "returned"
                   /\ UNCHANGED <<train_loss, test_loss>>
                   /\ fit' = [fit EXCEPT !.hist_loss = hist_loss, !.history = history,
                                         !.early_stop = TRUE, !.stop_seen = hist_loss,
                                         !.n_stop_eval = @ + 1,
                                         !.decay_seen = IF decay THEN hist_loss ELSE @,
                                         !.n_decay_eval = IF decay THEN @ + 1 ELSE @,
                                         !.z0_slot = Append(@, z0),
                                         !.epoch_avg = Append(@, result(fit.epoch_test))]
              ELSE /\ train_loss' = reset_states(train_loss)
                   /\ test_loss' = reset_states(test_loss)
                   /\ pc' = IF last THEN "returned" ELSE "train"
                   /\ fit' = [fit EXCEPT !.hist_loss = hist_loss, !.history = history,
                                         !.epoch = IF last THEN @ ELSE @ + 1,
                                         !.epoch_avg = Append(@, result(fit.epoch_test)),
                                         !.epoch_test = NoMean,
                                         !.stop_seen = hist_loss,
                                         !.n_stop_eval = @ + 1,
                                         !.decay_seen = IF decay THEN hist_loss ELSE @,
                                         !.n_decay_eval = IF decay THEN @ + 1 ELSE @,
                                         !.z0_slot = Append(@, z0),
                                         !.decayed_from =
                                             IF decay /\ loss_cnt > DecayPatience
                                             THEN lr ELSE @]
    /\ UNCHANGED <<cfg, y0, z0, theta, optimizer_lr, hist, ret, prev>>

\* solver.train_step(batch) called directly on a fresh solver, before any
\* forward pass is examined; a raised exception is left to the caller.
DirectTrainStep ==
    /\ pc = "idle"
    /\ ret = NoCall
    /\ train_loss = NoMean
    /\ \E u \in ParamUpdates :
          \E r \in { train_step(cfg, y0, z0, theta, hist, train_loss,
                                 MixedBatch(cfg.N), u) } :
              /\ r.status = "ok"
              /\ y0' = r.y0 /\ z0' = r.z0 /\ theta' = r.theta
              /\ hist' = r.hist
              /\ train_loss' = r.mean
    /\ UNCHANGED <<cfg, lr, optimizer_lr, loss_patience_cnt, stop_patience_cnt,
                   test_loss, ret, prev, pc, fit>>

(***************************************************************************)
(* Specifications                                                          *)
(***************************************************************************)
\* every operation of a constructed solver; the specifications after it each
\* follow one kind of use
Next ==
    \/ Call
    \/ DirectTrainStep
    \/ FitStart(FitEpochs, 1..MaxRefitEpochs, MaxFits, MalformedBatches(cfg.N))
    \/ TrainStep(ParamUpdates)
    \/ TestStep
    \/ EpochEnd
Spec == Init /\ [][Next]_vars

\* direct forward passes on a constructed solver (a pass makes no use of the
\* equation's optional transform, and with dimx = dimw the flag zdx changes
\* nothing in it)
NextCall == Call \/ DirectTrainStep
InitCall == Init /\ ~cfg.has_transform /\ cfg.zdx = cfg.separate_z0
SpecCall == InitCall /\ [][NextCall]_vars

\* custom_fit calls on a constructed solver
NextFit ==
    \/ FitStart(FitEpochs, 1..MaxRefitEpochs, MaxFits, MalformedBatches(cfg.N))
    \/ TrainStep(ParamUpdates)
    \/ TestStep
    \/ EpochEnd
InitFit == Init /\ cfg \in FitConfigs
SpecFit == InitFit /\ [][NextFit]_vars

\* many custom_fit calls of MaxEpochs epochs each on one solver, to follow the
\* learning rate down to its floor
NextLR ==
    \/ FitStart({MaxEpochs}, {MaxEpochs}, LrMaxFits, {})
    \/ TrainStep(LrUpdates)
    \/ TestStep
    \/ EpochEnd
InitLR ==
    /\ Init
    /\ cfg \in { [N |-> 2, separate_z0 |-> TRUE, zdx |-> TRUE, has_transform |-> h] :
                      h \in BOOLEAN }
    /\ y0 = 300 /\ theta = 0
SpecLR == InitLR /\ [][NextLR]_vars

(***************************************************************************)
(* Properties of the forward pass, checked under SpecCall                  *)
(***************************************************************************)
Recorded == ret.op = "call" /\ ret.test /\ ret.status # ShapeError

\* C1 as stated: a recording forward pass leaves N+1 state entries, N+1 value
\* entries, N control entries and N+1 time entries.
C1_TrajectoryLengthsAsStated ==
    Recorded =>
        /\ Len(hist.x) = cfg.N + 1
        /\ Len(hist.y) = cfg.N + 1
        /\ Len(hist.z) = cfg.N
        /\ Len(hist.t) = cfg.N + 1

\* C1 amended: a recording forward pass leaves N state entries (x_0..x_{N-1}),
\* N+1 value entries, N control entries and N time entries (t_0..t_{N-1}); the
\* terminal state and the terminal time are not recorded.
C1_TrajectoryLengths ==
    Recorded =>
        /\ Len(hist.x) = cfg.N
        /\ Len(hist.y) = cfg.N + 1
        /\ Len(hist.z) = cfg.N
        /\ Len(hist.t) = cfg.N
        /\ Len(hist.pi) = cfg.N

C1_Witness == Recorded /\ cfg.N = MaxN /\ ret.status = "ok" /\ Len(hist.y) = MaxN + 1

\* C2: with one time interval a forward pass returns normally, having made the
\* one value-transition call and no Approximator call besides the coupled
\* initial control.
C2_SingleIntervalReturns ==
    (ret.op = "call" /\ cfg.N = 1) =>
        /\ ret.status = "ok"
        /\ ret.calls.next_y = 1
        /\ ret.calls.nn_z = (IF cfg.separate_z0 THEN 0 ELSE 1)

\* C8: in coupled mode, after a forward pass the InitialControl slot is the
\* first row of the control batch the Approximator gives at t = 0, divided by
\* dimz.
C8_CoupledSlotIsFirstRow ==
    (ret.op = "call" /\ ~cfg.separate_z0 /\ ret.status # ShapeError) =>
        z0 = control(ret.theta, broadcast_to(x0, BatchSize), broadcast_to(0, BatchSize),
                     broadcast_to(ret.y0, BatchSize), dimz(cfg.zdx))[1]

C8_Witness ==
    /\ ret.op = "call" /\ ~cfg.separate_z0 /\ Len(ret.inputs) >= 2
    /\ ret.z0 # z0 /\ z0 # 0

\* C9: N = 2, InitialState 0, InitialValue 0 and zero noise at both steps give
\* the terminal value 0 in every batch row, whatever the controls are.
C9_ZeroNoiseKeepsValue ==
    (ret.op = "call" /\ cfg.N = 2 /\ ret.y0 = 0 /\ ret.inputs = ZeroBatch(2)) =>
        /\ ret.status = "ok"
        /\ \A i \in 1..Len(ret.y) : ret.y[i] = 0

C9_Witness ==
    /\ ret.op = "call" /\ cfg.N = 2 /\ ret.y0 = 0 /\ ret.inputs = ZeroBatch(2)
    /\ ret.status = "ok"
    /\ \E i \in 1..Len(ret.z) : ret.z[i] # 0
    /\ cfg.separate_z0 /\ ret.z0 # 0

\* C10: two consecutive forward passes with the same noise sample on a solver
\* whose parameters did not change return the same outcome and the same
\* (value, state, control) triple, in either recording mode.
SameParameters ==
    /\ prev.y0 = ret.y0
    /\ prev.theta = ret.theta
    /\ (cfg.separate_z0 => prev.z0 = ret.z0)
C10_RepeatedPassSameTriple ==
    (prev.op = "call" /\ ret.op = "call" /\ prev.inputs = ret.inputs /\ SameParameters) =>
        /\ prev.status = ret.status
        /\ prev.y = ret.y /\ prev.x = ret.x /\ prev.z = ret.z

C10_Witness ==
    /\ prev.op = "call" /\ ret.op = "call" /\ prev.inputs = ret.inputs /\ SameParameters
    /\ prev.test # ret.test
    /\ ~cfg.separate_z0 /\ prev.z0 # ret.z0
    /\ ret.status = "ok"
    /\ \E i \in 1..Len(ret.y) : ret.y[i] # ret.y0

(***************************************************************************)
(* Properties of custom_fit, checked under SpecFit and SpecLR              *)
(***************************************************************************)
InFit == pc # "idle"
Front(h) == SubSeq(h, 1, Len(h) - 1)

\* the number of most recent epochs, counted back from the last one, whose
\* relative loss change is below p / q
RECURSIVE PlateauRun(_, _, _)
PlateauRun(h, p, q) ==
    IF Len(h) < 2 THEN 0
    ELSE IF rel_change_below(h[Len(h) - 1], h[Len(h)], p, q)
         THEN 1 + PlateauRun(Front(h), p, q)
         ELSE 0

StopEpochLeavesDecayCounter ==
    /\ pc = "returned" /\ fit.early_stop
    /\ fit.stop_seen = fit.hist_loss /\ fit.decay_seen = Front(fit.hist_loss)
    /\ stop_patience_cnt = StopPatience + 1
    /\ loss_patience_cnt = StopPatience
    /\ PlateauRun(fit.hist_loss, DecayDeltaNum, DecayDeltaDen) = StopPatience + 1

\* C5: the learning rate is never below 1e-6, and a decay applied at 1e-6
\* leaves it at 1e-6.
C5_LearningRateFloor ==
    /\ lr >= LR_FLOOR
    /\ (InFit /\ fit.decayed_from = LR_FLOOR) => lr = LR_FLOOR

C5_Witness == InFit /\ fit.decayed_from = LR_FLOOR /\ lr = LR_FLOOR

\* C6: both running-loss accumulators are zero when an epoch's batches begin,
\* and the loss appended for an epoch is the average over that epoch's test
\* batches.
SameFraction(a, b) == a.num * b.den = b.num * a.den
C6_LossIsEpochAverage ==
    /\ (pc = "train" /\ fit.i = 1) => (train_loss = NoMean /\ test_loss = NoMean)
    /\ InFit =>
          \A k \in 1..Len(fit.hist_loss) : SameFraction(fit.hist_loss[k], fit.epoch_avg[k])

\* C7: when custom_fit returns after k epochs, each per-epoch field of the
\* returned history has k entries, the epoch indices are 1..k, and the static
\* fields hold what was written at the start.
PerEpochFields(h) == << h.epoch, h.elapsed_time, h.y0, h.z0, h.loss, h.lr >>
C7_HistoryRows ==
    /\ (pc = "returned") =>
          LET k == fit.epoch + 1
              f == PerEpochFields(fit.history)
          IN  /\ k <= fit.epochs
              /\ fit.n_test = k * Len(fit.test_ds)
              /\ \A j \in 1..Len(f) : Len(f[j]) = k
              /\ fit.history.epoch = [j \in 1..k |-> j]
    /\ (pc \in {"train", "test", "epoch_end", "returned"}) =>
          /\ fit.history.x0 = x0 /\ fit.history.T = total_time
          /\ fit.history.N = cfg.N
          /\ fit.history.psi = psi /\ fit.history.gamma = gamma

C7_Witness ==
    /\ pc = "returned" /\ fit.early_stop /\ fit.epoch + 1 < fit.epochs + 1
    /\ Len(fit.history.loss) = StopPatience + 2

(***************************************************************************)
(* Failures inside a forward pass                                          *)
(***************************************************************************)
\* a step in which a forward pass raised the shape error: a direct call, or
\* the pass of a train or test step of custom_fit
ShapeFailureStep ==
    \/ (<<ret, prev>>' # <<ret, prev>> /\ ret'.status = ShapeError)
    \/ (pc \in {"train", "test"} /\ pc' = "raised" /\ fit'.raised = ShapeError)

\* C11: a forward pass whose noise tensor cannot be reshaped raises the shape
\* error before any next_y, next_x or nn_z call; it leaves the trainable
\* parameters, the recorded trajectory, the loss history and both patience
\* counters as they were; inside custom_fit the error ends that custom_fit,
\* which runs no further step (nothing is retried).
C11_ShapeErrorBeforeAnyCall ==
    [][ /\ ShapeFailureStep =>
              /\ UNCHANGED <<y0, z0, theta, hist, lr, optimizer_lr,
                             loss_patience_cnt, stop_patience_cnt>>
              /\ (pc' = "idle" => ret'.calls = NoCalls)
              /\ (pc' = "raised" =>
                     /\ fit'.raised_calls = NoCalls
                     /\ fit'.hist_loss = fit.hist_loss
                     /\ fit'.history = fit.history
                     /\ fit'.n_train = fit.n_train /\ fit'.n_test = fit.n_test)
        /\ (pc = "raised" /\ pc' # "raised") => fit'.nfit = fit.nfit + 1
      ]_vars

\* the second test batch of an epoch is malformed: the training batch and the
\* first test batch of the epoch went through before the error
C11_Witness ==
    /\ pc = "raised" /\ fit.raised = ShapeError /\ fit.raised_calls = NoCalls
    /\ fit.n_train >= 1 /\ fit.n_test >= 1
    /\ Len(hist.y) = cfg.N + 1

\* C12: with zdx and an equation that has no z_T_matmul_sigma_x, every epoch
\* appends a history row whose z0 is the matrix product of self.z0 with
\* sigma_x(x0), and custom_fit goes on as with any other equation: the only
\* exceptions that leave it are those of a forward pass.
C12_MissingTransformFallsBack ==
    (InFit /\ cfg.zdx /\ ~cfg.has_transform) =>
        /\ Len(fit.history.z0) = Len(fit.hist_loss)
        /\ Len(fit.z0_slot) = Len(fit.hist_loss)
        /\ \A k \in 1..Len(fit.history.z0) :
               fit.history.z0[k] = matmul(fit.z0_slot[k], sigma_x(x0))
        /\ (pc = "raised" => fit.raised \in {ShapeError, "UnboundLocalError"})
        /\ (pc \in {"train", "test", "epoch_end"} =>
               fit.epoch = Len(fit.hist_loss) /\ fit.epoch < fit.epochs)
        /\ (pc = "returned" =>
               (fit.early_stop \/ Len(fit.hist_loss) = fit.epochs))

\* a fit on such a solver that ran all of its several epochs, with a non-zero
\* self.z0 at the end of one of them
C12_Witness ==
    /\ pc = "returned" /\ cfg.zdx /\ ~cfg.has_transform
    /\ ~fit.early_stop /\ Len(fit.history.z0) >= 3
    /\ \E k \in 1..Len(fit.history.z0) :
           fit.z0_slot[k] # 0 /\ fit.history.z0[k] # fit.z0_slot[k]

(***************************************************************************)
(* The order of the calls inside a forward pass, checked under SpecCall    *)
(***************************************************************************)
CallsOf(trace, fn) == SelectSeq(trace, LAMBDA e : e.fn = fn)
Columns(inputs, n) == [i \in 1..Len(inputs) |-> SubSeq(inputs[i], 1, n)]

\* x_t: t applications of the state transition to x_0, with the increments
\* dw[:, :, 0], ..., dw[:, :, t-1] in this order
RECURSIVE StateAt(_, _)
StateAt(inputs, t) ==
    IF t = 0 THEN broadcast_to(x0, Len(inputs))
    ELSE next_x(StateAt(inputs, t - 1), dw_slice(inputs, t - 1))

\* C13: in a forward pass that got past the reshape, the value-transition call
\* of step t (t = 0..N-1) receives the time t * delta_t, the state x_t, the
\* value returned by the call of step t-1 (the InitialValue at t = 0), the
\* control z_t computed from exactly these three (the InitialControl at t = 0)
\* and the increment dw[:, :, t]; the state transition that follows it takes
\* x_t and the same increment; two passes on the same parameters whose noise
\* agrees up to column t-1 use the same control z_t.
C13_StepArguments ==
    (ret.op = "call" /\ ret.status # ShapeError) =>
        LET B  == Len(ret.inputs)
            ny == CallsOf(ret.trace, "next_y")
            nx == CallsOf(ret.trace, "next_x")
        IN  /\ Len(ny) = cfg.N /\ Len(nx) = cfg.N
            /\ \A t \in 0..(cfg.N - 1) :
                   /\ ny[t + 1].time = broadcast_to(t * delta_t(cfg.N), B)
                   /\ ny[t + 1].x = StateAt(ret.inputs, t)
                   /\ ny[t + 1].y = (IF t = 0 THEN broadcast_to(ret.y0, B)
                                     ELSE next_y(ny[t].time, ny[t].x, ny[t].y, ny[t].z,
                                                 ny[t].dw, cfg.zdx).y)
                   /\ ny[t + 1].z = (IF t = 0
                                     THEN InitialControl(cfg, ret.z0, ret.theta,
                                                         ny[1].x, ny[1].y)
                                     ELSE control(ret.theta, ny[t + 1].x, ny[t + 1].time,
                                                  ny[t + 1].y, dimz(cfg.zdx)))
                   /\ ny[t + 1].dw = dw_slice(ret.inputs, t)
                   /\ nx[t + 1].x = ny[t + 1].x
                   /\ nx[t + 1].dw = ny[t + 1].dw
            /\ (prev.op = "call" /\ prev.status # ShapeError /\ SameParameters) =>
                   LET py == CallsOf(prev.trace, "next_y")
                   IN  \A t \in 0..(cfg.N - 1) :
                           Columns(prev.inputs, t) = Columns(ret.inputs, t)
                               => py[t + 1].z = ny[t + 1].z

\* two passes on the same parameters whose noise differs first in column 1:
\* the control z_1 is the same in both, the control z_2 and the values differ
C13_Witness ==
    /\ ret.op = "call" /\ prev.op = "call" /\ SameParameters /\ cfg.N = MaxN
    /\ ret.status = "ok" /\ prev.status = "ok"
    /\ Columns(prev.inputs, 1) = Columns(ret.inputs, 1)
    /\ Columns(prev.inputs, 2) # Columns(ret.inputs, 2)
    /\ prev.y # ret.y
    /\ CallsOf(prev.trace, "next_y")[2].z = CallsOf(ret.trace, "next_y")[2].z
    /\ CallsOf(prev.trace, "next_y")[3].z # CallsOf(ret.trace, "next_y")[3].z

\* C14: a forward pass with N >= 2 that got past the reshape returns normally
\* after N value-transition calls, N state-transition calls and N-1 control
\* queries of nn_z (N in coupled mode); its last two calls are the final value
\* update and then the final state transition, so nn_z is not queried after
\* the final value update; it returns y_N, x_N and the control z_{N-1} that the
\* final value update was given.
C14_CallCountsAndTriple ==
    (ret.op = "call" /\ cfg.N >= 2 /\ ret.status # ShapeError) =>
        LET tr == ret.trace
            ny == CallsOf(tr, "next_y")
            nx == CallsOf(tr, "next_x")
            nz == CallsOf(tr, "nn_z")
            final == ny[cfg.N]
        IN  /\ ret.status = "ok"
            /\ Len(ny) = cfg.N /\ ret.calls.next_y = cfg.N
            /\ Len(nx) = cfg.N /\ ret.calls.next_x = cfg.N
            /\ Len(nz) = (IF cfg.separate_z0 THEN cfg.N - 1 ELSE cfg.N)
            /\ ret.calls.nn_z = Len(nz)
            /\ tr[Len(tr) - 1] = final
            /\ tr[Len(tr)] = nx[cfg.N]
            /\ ret.y = next_y(final.time, final.x, final.y, final.z, final.dw, cfg.zdx).y
            /\ ret.x = next_x(nx[cfg.N].x, nx[cfg.N].dw)
            /\ ret.x = StateAt(ret.inputs, cfg.N)
            /\ ret.z = final.z

\* a coupled-mode pass over MaxN intervals whose final state transition moved
\* the state and whose final control is not zero
C14_Witness ==
    /\ ret.op = "call" /\ ret.status = "ok" /\ cfg.N = MaxN /\ ~cfg.separate_z0
    /\ ret.calls.nn_z = MaxN /\ ret.calls.next_x = MaxN
    /\ ret.x # CallsOf(ret.trace, "next_y")[MaxN].x
    /\ \E i \in 1..Len(ret.z) : ret.z[i] # 0

HalvedToFloor(l) == IF l \div 2 > LR_FLOOR THEN l \div 2 ELSE LR_FLOOR

\* C16: the learning rate after an epoch is max(lr/2, 1e-6) when the decay
\* counter exceeds 3 at the end of that epoch and is the same as before
\* otherwise, and every train step is made by the optimizer with the learning
\* rate self.lr has at that moment.  fit.applied_lr holds, for each train step
\* of this custom_fit, the learning rate of the optimizer and self.lr.
C16_OptimizerAppliesLr ==
    InFit =>
        /\ \A k \in 1..(Len(fit.history.lr) - 1) :
               fit.history.lr[k + 1] =
                   (IF PlateauRun(SubSeq(fit.hist_loss, 1, k),
                                  DecayDeltaNum, DecayDeltaDen) > DecayPatience
                    THEN HalvedToFloor(fit.history.lr[k])
                    ELSE fit.history.lr[k])
        /\ \A j \in 1..Len(fit.applied_lr) :
               fit.applied_lr[j].optimizer = fit.applied_lr[j].lr
        /\ optimizer_lr = lr

\* the learning-rate rule alone, which the code follows
C16_DecayRuleAlone ==
    InFit =>
        \A k \in 1..(Len(fit.history.lr) - 1) :
            fit.history.lr[k + 1] =
                (IF PlateauRun(SubSeq(fit.hist_loss, 1, k),
                               DecayDeltaNum, DecayDeltaDen) > DecayPatience
                 THEN HalvedToFloor(fit.history.lr[k])
                 ELSE fit.history.lr[k])

\* a train step made by the optimizer at 0.01 while self.lr is lower
OptimizerKeepsInitialLr ==
    /\ pc = "test" /\ Len(fit.applied_lr) >= 1
    /\ fit.applied_lr[Len(fit.applied_lr)].optimizer = LR_INIT
    /\ fit.applied_lr[Len(fit.applied_lr)].lr < LR_INIT

C18_StopCounterBelowDecayCounter ==
    InFit =>
        /\ (fit.n_stop_eval >= 1 /\ fit.n_decay_eval = fit.n_stop_eval) =>
               stop_patience_cnt <= loss_patience_cnt
        /\ fit.early_stop =>
               LET k == Len(fit.hist_loss)
                   quarter == fit.lr_in \div 4
               IN  /\ k >= 3
                   /\ \A j \in {k - 2, k - 1} :
                          /\ PlateauRun(SubSeq(fit.hist_loss, 1, j),
                                        DecayDeltaNum, DecayDeltaDen) > DecayPatience
                          /\ fit.history.lr[j + 1] = HalvedToFloor(fit.history.lr[j])
                   /\ lr <= (IF quarter > LR_FLOOR THEN quarter ELSE LR_FLOOR)

\* an early stop in a later custom_fit of the solver: the learning rate is a
\* quarter of the one at entry, and the stop counter, evaluated once more than
\* the decay counter, is above it
C18_Witness ==
    /\ pc = "returned" /\ fit.early_stop /\ fit.nfit >= 2
    /\ lr * 4 = fit.lr_in /\ fit.lr_in < LR_INIT
    /\ stop_patience_cnt > loss_patience_cnt

\* C19: whatever the counters were when custom_fit was entered, both are 0
\* after its first epoch, early stop is not signalled before the end of its
\* 7th epoch, and a custom_fit with epochs <= 6 that returns has run all its
\* epochs.
C19_NoEarlyStopBeforeSeventhEpoch ==
    InFit =>
        /\ (Len(fit.hist_loss) = 1 /\ ~fit.early_stop) =>
               (stop_patience_cnt = 0 /\ loss_patience_cnt = 0)
        /\ fit.early_stop => Len(fit.hist_loss) >= StopPatience + 2
        /\ (pc = "returned" /\ fit.epochs <= StopPatience + 1) =>
               (~fit.early_stop /\ Len(fit.hist_loss) = fit.epochs)

\* a custom_fit entered with the counters an early stop left behind, returned
\* after its epochs with the stop counter reset
C19_Witness ==
    /\ pc = "returned" /\ fit.nfit >= 2 /\ ~fit.early_stop
    /\ fit.cnt_in.stop = StopPatience + 1 /\ fit.cnt_in.loss = StopPatience
    /\ fit.epochs <= StopPatience + 1 /\ Len(fit.hist_loss) = fit.epochs
    /\ stop_patience_cnt = 0

====
